---- MODULE Spec2Model ----
(***************************************************************************)
(* Model of cura_profile_extractor.py: the file readers, the definition    *)
(* tree walker and CuraExtractor._extract_machine (chain building, merge   *)
(* of the chain's layers, definition-changes overlay).                     *)
(*                                                                         *)
(* Python dicts are functions whose DOMAIN is the set of keys present;     *)
(* a directory is a function from file identifiers to files, and a file    *)
(* that does not exist is not in the DOMAIN.                               *)
(***************************************************************************)
EXTENDS Integers, Sequences, FiniteSets, TLC

VARIABLES
    definitions,            \* <install>/share/cura/resources/definitions: id -> <id>.def.json
    machine_instances,      \* <appdata>/machine_instances: machine name -> *.global.cfg
    definition_changes_dir, \* <appdata>/definition_changes: file -> *.inst.cfg
    pc,                     \* position inside _extract_machine
    result,                 \* the dict _extract_machine returns
    chain,                  \* local `chain`
    current_def,            \* local `current_def`
    effective,              \* local `effective`
    idx,                    \* position of the merge loop in reversed(chain)
    merged,                 \* names of the links the merge loop has processed, in order
    run,                    \* number of the current call of _extract_machine
    previous,               \* what the previous call returned
    walker_input,           \* the def_data extract_settings_from_def is called on
    walker_output,          \* the dict extract_settings_from_def returns
    walker_pc,              \* position of that call
    key_input,              \* the data extract_key_settings is called on
    key_output,             \* the dict extract_key_settings returns
    key_pc,                 \* position of that call
    quality_changes,        \* <appdata>/quality_changes: file -> *.inst.cfg
    quality_base,           \* <install>/.../quality/creality/base: file -> base_global_*.inst.cfg
    extruders_dir,          \* <appdata>/extruders: file -> *.extruder.cfg
    materials_dir,          \* <install>/.../materials: the *.xml.fdm_material file names
    appdata_files,          \* <appdata>/cura.cfg and <appdata>/packages.json
    install_path,           \* self.install_path
    machines,               \* self.machines
    custom_profiles,        \* self.custom_profiles
    materials,              \* self.materials
    cura_version,           \* self.cura_version
    options,                \* the options extract_all is called with
    output,                 \* local `output` of extract_all
    xpc,                    \* position inside extract_all
    log,                    \* the messages sent to the user so far
    calls,                  \* calls of discover and extract_all made so far
    discovered,             \* what the last call of discover returned
    returned,               \* what the last call of extract_all returned
    custom_order,           \* order in which _extract_custom_qualities read the files
    first_discover          \* the recorded fields as the first discover left them

\* A call of extract_settings_from_def on its own
walker == <<walker_input, walker_output, walker_pc>>

\* The files only discover and the sections of extract_all read
more_files == <<quality_changes, quality_base, extruders_dir, materials_dir,
                appdata_files, install_path>>

\* The recorded fields of a CuraExtractor
fields == <<machines, custom_profiles, materials, cura_version>>

\* A call of discover or extract_all and what is known of the calls before
driver == <<options, output, xpc, log, calls, discovered, returned, custom_order,
            first_discover>>

\* A call of extract_key_settings on its own
quick == <<key_input, key_output, key_pc>>

\* What _extract_machine never touches
elsewhere == <<walker, quick, more_files, fields, driver>>

\* What lies outside one call of _extract_machine
outside == <<run, previous, elsewhere>>

vars == <<definitions, machine_instances, definition_changes_dir, pc, result,
          chain, current_def, effective, idx, merged, outside>>

inputs == <<definitions, machine_instances, definition_changes_dir>>

----------------------------------------------------------------------------
(* Bounds and vocabulary *)

\* The chain-building loop has no bound of its own; the model follows it for
\* at most MaxChain links.
MaxChain == 5

\* Python's None (returned by dict.get for an absent key).
None == "None"

\* The marker appended to _sources by the definition-changes overlay.
DefinitionChangesMarker == "definition_changes"

\* The base definition used when container slot 7 is absent.
FallbackBaseDef == "creality_ender3pro"

\* Identifiers a definition document may carry in the modelled directory.
DefIds == {"fdmprinter", "creality_ender3pro", "definition_changes"}

\* The machine being resolved, and the name its slot 6 may give.
MachineName == "Ender"
SettingsName == "Ender_settings"

EmptyMap == [x \in {} |-> x]

\* dict.get(key, default)
Get(d, key, default) == IF key \in DOMAIN d THEN d[key] ELSE default

\* d.update(other): keys of other overwrite, other keys stay
Update(d, other) == other @@ d

\* The JSON values false and 0 as json.load returns them (False and 0), kept
\* apart from every string a file can hold
JsonFalse == "json:false"
JsonZero == "json:0"

\* bool(x) for the values the code tests: None, "", False and 0 are falsy
Truthy(x) == x \notin {None, "", JsonFalse, JsonZero}

----------------------------------------------------------------------------
(* File parsers *)

\* A file on disk: state is "ok" (readable, well-formed), "unreadable" (open
\* fails with an OSError) or "malformed" (the parser rejects the content).
\* For an "ok" file, content holds the parsed sections / JSON object.
File(state, content) == [state |-> state, content |-> content]

\* parse_cfg_file starts its result with _filepath and _filename.
CfgHeader(fname) == ("_filepath" :> fname) @@ ("_filename" :> fname)

\* parse_cfg_file(filepath).  ConfigParser.read skips a file it cannot open
\* (it catches OSError and goes on), so an unreadable file raises nothing and
\* yields no section; a malformed one raises a configparser.Error or a
\* UnicodeDecodeError, which the except clause turns into _error.
parse_cfg_file(dir, fname) ==
    IF fname \notin DOMAIN dir
    THEN ("_error" :> "File not found") @@ CfgHeader(fname)
    ELSE CASE dir[fname].state = "unreadable" -> CfgHeader(fname)
           [] dir[fname].state = "malformed" ->
                  ("_error" :> "parse error") @@ CfgHeader(fname)
           [] OTHER -> dir[fname].content @@ CfgHeader(fname)

\* Path.name of <definitions_dir>/<id>.def.json
DefFileName(id) == id \o ".def.json"

DefHeader(id) == ("_filepath" :> DefFileName(id)) @@ ("_filename" :> DefFileName(id))

\* parse_def_json(filepath).  open() and json.load are inside the try block,
\* so an unreadable or malformed file yields _error.
parse_def_json(dir, id) ==
    IF id \notin DOMAIN dir
    THEN ("_error" :> "File not found") @@ DefHeader(id)
    ELSE IF dir[id].state # "ok"
         THEN ("_error" :> dir[id].state) @@ DefHeader(id)
         ELSE Update(DefHeader(id), dir[id].content)

----------------------------------------------------------------------------
(* Definition tree walker *)

\* A node of the settings tree is [props, children]: props is the node's own
\* fields (without "children"), children the sequence of [key, node] pairs of
\* its "children" object in document order (empty when it has none).
Node(props, children) == [props |-> props, children |-> children]
Entry(key, node) == [key |-> key, node |-> node]

\* A JSON value found under "settings": an object (its items in document
\* order) or an array.
JsonObject(items) == [kind |-> "object", items |-> items]
JsonArray == [kind |-> "array", items |-> <<>>]

\* The allow-list of extract_settings_from_def.recurse
AllowList == {"default_value", "value", "type", "description", "unit",
              "minimum_value", "maximum_value", "enabled", "settable_per_mesh",
              "settable_per_extruder", "options"}

Restrict(f, S) == [k \in (DOMAIN f) \cap S |-> f[k]]

\* recurse(node, path) applied to the accumulator `settings`: children first,
\* then the node itself, whose entry replaces any entry of the same key.
RECURSIVE recurse(_, _, _)
RECURSIVE recurseAll(_, _, _)
recurseAll(settings, items, i) ==
    IF i > Len(items) THEN settings
    ELSE recurseAll(recurse(settings, items[i].node, items[i].key), items, i + 1)

\* Variant: a setting's entry is the node's fields as they stand
recurse_CopiesAll(settings, node, path) ==
    IF "type" \in DOMAIN node.props /\ node.props["type"] # "category"
    THEN (path :> node.props) @@ recurseAll(settings, node.children, 1)
    ELSE recurseAll(settings, node.children, 1)

\* Variant: the children of a node that is not itself a setting are not
\* visited
recurse_NoDescent(settings, node, path) ==
    IF "type" \in DOMAIN node.props /\ node.props["type"] # "category"
    THEN (path :> Restrict(node.props, AllowList))
            @@ recurseAll(settings, node.children, 1)
    ELSE settings

recurse(settings, node, path) ==
    LET afterChildren == recurseAll(settings, node.children, 1)
        setting_info == Restrict(node.props, AllowList)
    IN IF "type" \in DOMAIN node.props /\ node.props["type"] # "category"
          /\ DOMAIN setting_info # {}
       THEN (path :> setting_info) @@ afterChildren
       ELSE afterChildren

\* Variant: the override's fields replace the key's entry
ApplyOverride_Replace(settings, key, override, filename) ==
    (key :> (("_source" :> filename) @@ override)) @@ settings

\* The "overrides" loop: update the key's entry (created when new) with the
\* override's fields, then stamp _source with the document's _filename.
ApplyOverride(settings, key, override, filename) ==
    (key :> (("_source" :> filename) @@ Update(Get(settings, key, EmptyMap), override)))
        @@ settings

RECURSIVE ApplyOverrides(_, _, _, _)
ApplyOverrides(settings, overrides, keys, filename) ==
    IF keys = {} THEN settings
    ELSE LET key == CHOOSE k \in keys : TRUE
         IN ApplyOverrides(ApplyOverride(settings, key, overrides[key], filename),
                           overrides, keys \ {key}, filename)

\* extract_settings_from_def raises (AttributeError: 'list' object has no
\* attribute 'items') when "settings" is present and is not an object.
extract_raises(def_data) ==
    "settings" \in DOMAIN def_data /\ def_data["settings"].kind # "object"

extract_settings_from_def(def_data) ==
    LET fromTree == IF "settings" \in DOMAIN def_data
                    THEN recurseAll(EmptyMap, def_data["settings"].items, 1)
                    ELSE EmptyMap
    IN IF "overrides" \in DOMAIN def_data
       THEN ApplyOverrides(fromTree, def_data["overrides"],
                           DOMAIN def_data["overrides"],
                           Get(def_data, "_filename", "unknown"))
       ELSE fromTree


----------------------------------------------------------------------------
(* The pieces of CuraExtractor._extract_machine *)

\* The scan of machine_instances for the file whose decoded stem is
\* machine_name; None when the loop finds none.
FindMachineFile(dir, machine_name) ==
    IF machine_name \in DOMAIN dir THEN machine_name ELSE None

\* Variant: the scan takes a file without comparing its declared name
MatchingDefChanges_AnyFile(dir, settings_name) == DOMAIN dir

\* The definition_changes files whose [general] name equals settings_name.
\* The scan takes the first match in glob order, which the file system
\* chooses: any of them may be the one.
MatchingDefChanges(dir, settings_name) ==
    {f \in DOMAIN dir :
        Get(Get(parse_cfg_file(dir, f), "general", EmptyMap), "name", "") = settings_name}

\* Variant: no fallback identifier when slot 7 is absent
base_def_name_NoFallback(containers) == Get(containers, "7", None)

\* base_def_name = containers.get("7", "creality_ender3pro")
base_def_name(containers) == Get(containers, "7", FallbackBaseDef)

\* Variant: the loop does not test that the file exists
def_path_exists_Always(dir, id) == TRUE

\* def_path.exists()
def_path_exists(dir, id) == id \in DOMAIN dir

\* Variant: the link records its own name as the parent
ChainLink_OwnNameAsParent(current, def_data) ==
    [name |-> current, file |-> DefFileName(current), inherits |-> current]

\* The link record appended to chain
ChainLink(current, def_data) ==
    [name |-> current, file |-> DefFileName(current),
     inherits |-> Get(def_data, "inherits", None)]

\* Variant: the layer is recorded in _sources only when it creates the key
MergeKey_AppendOnlyNew(eff, key, value, name) ==
    IF key \in DOMAIN eff
    THEN (key :> Update(eff[key], value)) @@ eff
    ELSE (key :> Update(("_sources" :> <<name>>), value)) @@ eff

\* Variant: the layer's metadata replaces the entry instead of updating it
MergeKey_Replace(eff, key, value, name) ==
    LET sources == Get(eff, key, ("_sources" :> <<>>))["_sources"]
    IN (key :> (("_sources" :> Append(sources, name)) @@ value)) @@ eff

\* Body of `for key, value in settings.items()` for one key
MergeKey(eff, key, value, name) ==
    LET entry == Update(Get(eff, key, ("_sources" :> <<>>)), value)
    IN (key :> [entry EXCEPT !["_sources"] = Append(@, name)]) @@ eff

RECURSIVE MergeKeys(_, _, _, _)
MergeKeys(eff, settings, keys, name) ==
    IF keys = {} THEN eff
    ELSE LET key == CHOOSE k \in keys : TRUE
         IN MergeKeys(MergeKey(eff, key, settings[key], name), settings,
                      keys \ {key}, name)

\* Variant: every link is recorded in the _sources of every key seen so far,
\* whether or not its document defines the key
MergeLayer_AppendAll(eff, settings, name) ==
    LET m == MergeKeys(eff, settings, DOMAIN settings, name)
    IN [k \in DOMAIN m |->
          IF k \in DOMAIN settings THEN m[k]
          ELSE [m[k] EXCEPT !["_sources"] = Append(@, name)]]

\* One iteration of `for def_info in reversed(chain)` once settings is known
MergeLayer(eff, settings, name) == MergeKeys(eff, settings, DOMAIN settings, name)

\* Variant: the override is written to default_value
OverlayKey_WritesDefault(eff, key, value) ==
    LET entry == Get(eff, key, ("_sources" :> <<>>))
    IN (key :> (("default_value" :> value) @@
                [entry EXCEPT !["_sources"] = Append(@, DefinitionChangesMarker)]))
       @@ eff

\* Variant: an override for a key the chain never produced is dropped
OverlayKey_OnlyExisting(eff, key, value) ==
    IF key \notin DOMAIN eff THEN eff
    ELSE (key :> (("effective_value" :> value) @@
                  [eff[key] EXCEPT !["_sources"] = Append(@, DefinitionChangesMarker)]))
         @@ eff

\* Body of the definition_changes loop for one key
OverlayKey(eff, key, value) ==
    LET entry == Get(eff, key, ("_sources" :> <<>>))
    IN (key :> (("effective_value" :> value) @@
                [entry EXCEPT !["_sources"] = Append(@, DefinitionChangesMarker)]))
       @@ eff

RECURSIVE OverlayKeys(_, _, _)
OverlayKeys(eff, values, keys) ==
    IF keys = {} THEN eff
    ELSE LET key == CHOOSE k \in keys : TRUE
         IN OverlayKeys(OverlayKey(eff, key, values[key]), values, keys \ {key})

\* `if "values" in result.get("definition_changes", {})`: apply every value
OverlayDefinitionChanges(eff, def_changes) ==
    IF "values" \in DOMAIN def_changes
    THEN OverlayKeys(eff, def_changes["values"], DOMAIN def_changes["values"])
    ELSE eff

----------------------------------------------------------------------------
(* The files the model draws its inputs from *)

\* The documents use field names of Cura's setting vocabulary (the allow-list
\* and "label"); none of them carries the names the extractor writes itself
\* (_sources, _source, effective_value).  Document identifiers are free file
\* names, and one of them is the string the overlay uses as its marker.

Leaf(props) == Node(props, <<>>)

\* fdmprinter.def.json: a settings tree with a category carrying the marker
\* type, a category without a type, and a leaf that has a child of its own.
FdmprinterBody ==
    "settings" :> JsonObject(<<
        Entry("resolution",
              Node(("type" :> "category") @@ ("label" :> "Quality"),
                   << Entry("layer_height",
                            Node(("type" :> "float") @@ ("default_value" :> "0.2")
                                   @@ ("unit" :> "mm") @@ ("label" :> "Layer Height"),
                                 << Entry("layer_height_0",
                                          Leaf(("type" :> "float")
                                                 @@ ("default_value" :> "0.3"))) >>)) >>)),
        Entry("machine_settings",
              Node(("label" :> "Machine"),
                   << Entry("machine_width",
                            Leaf(("type" :> "float") @@ ("default_value" :> "100")
                                   @@ ("unit" :> "mm"))) >>)) >>)

\* creality_ender3pro.def.json: overrides only
Ender3ProBody ==
    "overrides" :> (("layer_height" :> ("default_value" :> "0.16"))
                    @@ ("machine_width" :> ("default_value" :> "220"))
                    @@ ("machine_name" :> ("default_value" :> "Creality Ender-3 Pro")))

\* definition_changes.def.json: a definition document that happens to carry
\* the name the overlay uses as its marker
MarkerNamedBody ==
    "overrides" :> ("layer_height" :> (("value" :> "0.1") @@ ("maximum_value" :> "0.4")))

DefBody(id) ==
    CASE id = "fdmprinter" -> FdmprinterBody
      [] id = "creality_ender3pro" -> Ender3ProBody
      [] OTHER -> MarkerNamedBody

DefContent(id, inh) ==
    IF inh = None THEN DefBody(id) ELSE ("inherits" :> inh) @@ DefBody(id)

Absent == File("absent", EmptyMap)

\* What <id>.def.json may be: absent, unreadable, malformed JSON, well-formed
\* with any parent reference, or well-formed JSON whose "settings" is an array.
DefFileChoices(id) ==
    {Absent, File("unreadable", EmptyMap), File("malformed", EmptyMap),
     File("ok", "settings" :> JsonArray)}
    \cup {File("ok", DefContent(id, inh)) : inh \in DefIds \cup {None}}

Present(choice) == [f \in {g \in DOMAIN choice : choice[g] # Absent} |-> choice[f]]

DefinitionDirs ==
    {Present(c) : c \in {d \in [DefIds -> UNION {DefFileChoices(i) : i \in DefIds}] :
                            \A i \in DefIds : d[i] \in DefFileChoices(i)}}

\* [containers] of the machine instance: slot 6 and slot 7 each present or not
Slot(label, name) == IF name = None THEN EmptyMap ELSE label :> name

ContainerStacks ==
    {Slot("6", s6) @@ Slot("7", s7) : s6 \in {None, SettingsName}, s7 \in {None} \cup DefIds}

\* The instance file's sections: with or without a [containers] section
InstanceContents ==
    {("general" :> ("name" :> MachineName))}
    \cup {("general" :> ("name" :> MachineName)) @@ ("containers" :> c) :
             c \in ContainerStacks}

MachineInstanceDirs ==
    {EmptyMap}
    \cup {MachineName :> f :
             f \in {File("unreadable", EmptyMap), File("malformed", EmptyMap)}
                   \cup {File("ok", c) : c \in InstanceContents}}

DefChangesContents ==
    {("general" :> ("name" :> SettingsName)),
     ("general" :> ("name" :> SettingsName)) @@ ("values" :> ("layer_height" :> "0.12")),
     ("general" :> ("name" :> SettingsName))
        @@ ("values" :> (("machine_nozzle_size" :> "0.6") @@ ("machine_width" :> "235"))),
     ("general" :> ("name" :> "Other_settings")) @@ ("values" :> ("layer_height" :> "0.28"))}

DefChangesDirs ==
    {EmptyMap}
    \cup {"Ender_settings.inst.cfg" :> f :
             f \in {File("unreadable", EmptyMap)} \cup {File("ok", c) : c \in DefChangesContents}}

----------------------------------------------------------------------------
(* _extract_machine as a state machine *)

\* Lines 560-564: the result _extract_machine starts from
InitialResult ==
    ("inheritance_chain" :> <<>>) @@ ("effective_settings" :> EmptyMap)
    @@ ("definition_changes" :> EmptyMap)

\* Entry of _extract_machine: nothing of a call exists yet
Entered ==
    /\ pc = "start"
    /\ result = InitialResult
    /\ chain = <<>>
    /\ current_def = None
    /\ effective = EmptyMap
    /\ idx = 0
    /\ merged = <<>>

\* The first call
FirstCall ==
    /\ run = 1
    /\ previous = EmptyMap

\* No separate call of extract_settings_from_def is under way
WalkerIdle ==
    /\ walker_input = EmptyMap
    /\ walker_output = EmptyMap
    /\ walker_pc = "idle"

\* No separate call of extract_key_settings is under way
QuickIdle ==
    /\ key_input = EmptyMap
    /\ key_output = EmptyMap
    /\ key_pc = "idle"

\* Lines 388-391: the fields of a new CuraExtractor
Constructed ==
    /\ machines = <<>>
    /\ custom_profiles = <<>>
    /\ materials = <<>>
    /\ cura_version = "unknown"

\* No call of discover or extract_all has been made
NoCalls ==
    /\ options = EmptyMap
    /\ output = EmptyMap
    /\ xpc = "idle"
    /\ log = <<>>
    /\ calls = 0
    /\ discovered = EmptyMap
    /\ returned = EmptyMap
    /\ custom_order = <<>>
    /\ first_discover = <<>>

\* _extract_machine called on its own: no other directory matters
MachineOnly ==
    /\ quality_changes = EmptyMap
    /\ quality_base = EmptyMap
    /\ extruders_dir = EmptyMap
    /\ materials_dir = {}
    /\ appdata_files = EmptyMap
    /\ install_path = "/opt/cura"
    /\ Constructed
    /\ NoCalls

Init ==
    /\ definitions \in DefinitionDirs
    /\ machine_instances \in MachineInstanceDirs
    /\ definition_changes_dir \in DefChangesDirs
    /\ Entered
    /\ FirstCall
    /\ WalkerIdle
    /\ QuickIdle
    /\ MachineOnly

\* Lines 566-577: look for the machine instance file
FindMachine ==
    /\ pc = "start"
    /\ IF FindMachineFile(machine_instances, MachineName) = None
       THEN /\ result' = ("_error" :> "Machine not found") @@ result
            /\ pc' = "done"
       ELSE /\ result' = result
            /\ pc' = "parse_instance"
    /\ UNCHANGED <<outside, inputs, chain, current_def, effective, idx, merged>>

\* Lines 579-585: parse the instance, record it and its container stack
ParseInstance ==
    /\ pc = "parse_instance"
    /\ LET machine_cfg == parse_cfg_file(machine_instances, MachineName)
           containers == Get(machine_cfg, "containers", EmptyMap)
       IN result' = ("instance" :> machine_cfg) @@ ("container_stack" :> containers)
                    @@ result
    /\ pc' = "def_changes"
    /\ UNCHANGED <<outside, inputs, chain, current_def, effective, idx, merged>>

\* Lines 587-605: definition changes named by slot 6, then the base
\* definition named by slot 7
FindDefinitionChanges ==
    /\ pc = "def_changes"
    /\ LET containers == result["container_stack"]
           settings_name == Get(containers, "6", "")
           matching == IF Truthy(settings_name)
                       THEN MatchingDefChanges(definition_changes_dir, settings_name)
                       ELSE {}
       IN /\ IF matching = {}
             THEN result' = result
             ELSE \E f \in matching :
                     result' = [result EXCEPT !["definition_changes"] =
                                   parse_cfg_file(definition_changes_dir, f)]
          /\ current_def' = base_def_name(containers)
    /\ chain' = <<>>
    /\ pc' = "chain"
    /\ UNCHANGED <<outside, inputs, effective, idx, merged>>

\* Lines 606-615: one iteration of `while current_def` whose file exists
ChainStep ==
    /\ pc = "chain"
    /\ Truthy(current_def)
    /\ def_path_exists(definitions, current_def)
    /\ Len(chain) < MaxChain
    /\ LET def_data == parse_def_json(definitions, current_def)
       IN /\ chain' = Append(chain, ChainLink(current_def, def_data))
          /\ current_def' = Get(def_data, "inherits", None)
    /\ UNCHANGED <<outside, inputs, pc, result, effective, idx, merged>>

\* Lines 606, 616-622: the loop ends (current_def falsy, or no such file)
ChainEnd ==
    /\ pc = "chain"
    /\ ~(Truthy(current_def) /\ def_path_exists(definitions, current_def))
    /\ result' = [result EXCEPT !["inheritance_chain"] = chain]
    /\ effective' = EmptyMap
    /\ idx' = Len(chain)
    /\ pc' = "merge"
    /\ UNCHANGED <<outside, inputs, chain, current_def, merged>>

\* Lines 623-633: one iteration of `for def_info in reversed(chain)`
MergeStep ==
    /\ pc = "merge"
    /\ idx >= 1
    /\ LET def_info == chain[idx]
           def_data == parse_def_json(definitions, def_info.name)
       IN IF extract_raises(def_data)
          THEN /\ pc' = "raised"
               /\ UNCHANGED <<effective, idx, merged>>
          ELSE /\ effective' = MergeLayer(effective, extract_settings_from_def(def_data),
                                          def_info.name)
               /\ idx' = idx - 1
               /\ merged' = Append(merged, def_info.name)
               /\ pc' = pc
    /\ UNCHANGED <<outside, inputs, result, chain, current_def>>

\* Lines 635-644: overlay the definition changes and return
ApplyDefinitionChanges ==
    /\ pc = "merge"
    /\ idx = 0
    /\ LET eff == OverlayDefinitionChanges(effective, result["definition_changes"])
       IN /\ effective' = eff
          /\ result' = [result EXCEPT !["effective_settings"] = eff]
    /\ pc' = "done"
    /\ UNCHANGED <<outside, inputs, chain, current_def, idx, merged>>

Next ==
    \/ FindMachine
    \/ ParseInstance
    \/ FindDefinitionChanges
    \/ ChainStep
    \/ ChainEnd
    \/ MergeStep
    \/ ApplyDefinitionChanges

Spec == Init /\ [][Next]_vars


----------------------------------------------------------------------------
(* The same machine resolved again over unchanged files *)

\* The model follows at most MaxRuns calls of _extract_machine.
MaxRuns == 2

\* creality_base.def.json of the worked example: it defines other keys and
\* leaves layer_height alone
CrealityBaseBody ==
    "overrides" :> (("machine_width" :> ("default_value" :> "235"))
                    @@ ("machine_heated_bed" :> ("default_value" :> "true")))

\* The definitions directory of the worked example:
\* fdmprinter <- creality_base <- creality_ender3pro
ExampleDefinitions ==
    ("fdmprinter" :> File("ok", FdmprinterBody))
    @@ ("creality_base" :> File("ok", ("inherits" :> "fdmprinter") @@ CrealityBaseBody))
    @@ ("creality_ender3pro" :>
            File("ok", ("inherits" :> "creality_base") @@ Ender3ProBody))

\* The example, the example without creality_base.def.json, and the example
\* with an unreadable fdmprinter.def.json
ExampleDefinitionDirs ==
    {ExampleDefinitions,
     [id \in {"fdmprinter", "creality_ender3pro"} |-> ExampleDefinitions[id]],
     [ExampleDefinitions EXCEPT !["fdmprinter"] = File("unreadable", EmptyMap)]}

\* definition_changes with one file or with two; two files may declare the
\* same name with different values
RerunDefChangesDirs ==
    DefChangesDirs
    \cup {("Ender_settings.inst.cfg" :>
              File("ok", ("general" :> ("name" :> SettingsName))
                         @@ ("values" :> ("layer_height" :> "0.12"))))
          @@ ("Ender_settings_2.inst.cfg" :> File("ok", c)) :
              c \in {("general" :> ("name" :> SettingsName))
                        @@ ("values" :> ("layer_height" :> "0.2")),
                     ("general" :> ("name" :> "Other_settings"))
                        @@ ("values" :> ("layer_height" :> "0.28"))}}

InitRerun ==
    /\ definitions \in ExampleDefinitionDirs
    /\ machine_instances \in MachineInstanceDirs
    /\ definition_changes_dir \in RerunDefChangesDirs
    /\ Entered
    /\ FirstCall
    /\ WalkerIdle
    /\ QuickIdle
    /\ MachineOnly

\* _extract_machine is called again for the same machine (extract_all calls
\* it on every extraction, line 511); the files are as they were
Restart ==
    /\ pc = "done"
    /\ run < MaxRuns
    /\ run' = run + 1
    /\ previous' = result
    /\ pc' = "start"
    /\ result' = InitialResult
    /\ chain' = <<>>
    /\ current_def' = None
    /\ effective' = EmptyMap
    /\ idx' = 0
    /\ merged' = <<>>
    /\ UNCHANGED <<inputs, elsewhere>>

NextRerun ==
    \/ Next
    \/ Restart

SpecRerun == InitRerun /\ [][NextRerun]_vars

----------------------------------------------------------------------------
(* extract_settings_from_def called on one document *)

\* The fields a node of a settings tree may carry: a setting, a setting with
\* a field outside the allow-list, a typed category, and a node without type
WalkerProps ==
    {("type" :> "float") @@ ("default_value" :> "0.2"),
     ("type" :> "int") @@ ("default_value" :> "3") @@ ("label" :> "Count"),
     ("type" :> "enum") @@ ("options" :> "lines|grid") @@ ("description" :> "Pattern")
        @@ ("enabled" :> "true") @@ ("settable_globally" :> "true"),
     ("type" :> "category") @@ ("label" :> "Quality"),
     ("label" :> "Group")}

\* Keys of the documents; the same key may occur at several depths
WalkerKeys == {"layer_height", "speed"}

\* Settings trees by depth: a node with no children, with one child, with
\* one child that has one child
WalkerLeaves == {Node(p, <<>>) : p \in WalkerProps}

WalkerInner ==
    WalkerLeaves
    \cup {Node(p, <<Entry(k, n)>>) : p \in WalkerProps, k \in WalkerKeys, n \in WalkerLeaves}

WalkerRoots ==
    WalkerInner
    \cup {Node(p, <<Entry(k, n)>>) : p \in WalkerProps, k \in WalkerKeys, n \in WalkerInner}

\* The "settings" object: one top-level item, or two siblings
WalkerTrees ==
    {<<Entry("resolution", n)>> : n \in WalkerRoots}
    \cup {<<Entry("resolution", n), Entry("speed", m)>> :
              n \in WalkerInner, m \in WalkerLeaves}

\* The "overrides" object of a document, when it has one
WalkerOverrides ==
    {("layer_height" :> ("default_value" :> "0.16")),
     ("resolution" :> ("value" :> "1")),
     ("machine_width" :> ("default_value" :> "220"))}

WalkerDocuments ==
    {("_filename" :> "d.def.json") @@ ("settings" :> JsonObject(t)) : t \in WalkerTrees}
    \cup {("_filename" :> "d.def.json") @@ ("settings" :> JsonObject(t))
              @@ ("overrides" :> o) : t \in WalkerTrees, o \in WalkerOverrides}

InitWalker ==
    /\ definitions = EmptyMap
    /\ machine_instances = EmptyMap
    /\ definition_changes_dir = EmptyMap
    /\ Entered
    /\ FirstCall
    /\ QuickIdle
    /\ MachineOnly
    /\ walker_input \in WalkerDocuments
    /\ walker_output = EmptyMap
    /\ walker_pc = "called"

\* Lines 169-203: the whole call
Walk ==
    /\ walker_pc = "called"
    /\ walker_output' = extract_settings_from_def(walker_input)
    /\ walker_pc' = "returned"
    /\ UNCHANGED <<walker_input, inputs, pc, result, chain, current_def, effective,
                   idx, merged, run, previous, quick, more_files, fields, driver>>

NextWalker == Walk

SpecWalker == InitWalker /\ [][NextWalker]_vars

----------------------------------------------------------------------------
(* discover and the sections of extract_all: the pieces *)

\* The orders in which Path.glob may yield the files S: the file system
\* chooses, the code sorts nothing
Orders(S) ==
    {o \in [1..Cardinality(S) -> S] : \A i, j \in 1..Cardinality(S) : i # j => o[i] # o[j]}

\* The file names of the quality directories without their last suffix
Stems == {"ender_draft.inst", "ender_draft_extruder.inst", "fine.inst", "broken.inst",
          "base_global_draft.inst", "base_global_standard.inst",
          "base_global_draft_fast.inst"}

\* Path.stem of a *.cfg file
Stem(fname) == CHOOSE st \in Stems : st \o ".cfg" = fname

\* cfg.get("general", {}).get("name", f.stem)
ProfileName(cfg, fname) == Get(Get(cfg, "general", EmptyMap), "name", Stem(fname))

\* Variant: a later file's value does not replace the value the profile has
MergeValues_KeepFirst(settings, cfg) ==
    IF "values" \in DOMAIN cfg THEN Update(cfg["values"], settings) ELSE settings

\* Lines 759-760: result[name]["settings"].update(cfg["values"])
MergeValues(settings, cfg) ==
    IF "values" \in DOMAIN cfg THEN Update(settings, cfg["values"]) ELSE settings

\* Lines 763-764: result[name]["metadata"] = cfg["metadata"]
IncludeMetadata(profile, cfg) ==
    IF "metadata" \in DOMAIN cfg
    THEN ("metadata" :> cfg["metadata"]) @@ profile
    ELSE profile

\* One iteration of the loop of _extract_custom_qualities (lines 745-764)
ReadCustomFile(res, dir, fname) ==
    LET cfg == parse_cfg_file(dir, fname)
        name == ProfileName(cfg, fname)
        entry == Get(res, name, ("files" :> <<>>) @@ ("settings" :> EmptyMap))
        filed == ("files" :> Append(entry["files"], fname))
                 @@ ("settings" :> MergeValues(entry["settings"], cfg))
                 @@ entry
    IN (name :> IncludeMetadata(filed, cfg)) @@ res

\* _extract_custom_qualities, the scan yielding the files in `order`
RECURSIVE custom_qualities(_, _, _, _)
custom_qualities(res, dir, order, i) ==
    IF i > Len(order) THEN res
    ELSE custom_qualities(ReadCustomFile(res, dir, order[i]), dir, order, i + 1)

\* One iteration of the loop of _extract_builtin_qualities (lines 725-733)
ReadBuiltinFile(res, dir, fname) ==
    LET cfg == parse_cfg_file(dir, fname)
        quality_type == Get(Get(cfg, "metadata", EmptyMap), "quality_type", "unknown")
    IN (quality_type :> (("name" :> ProfileName(cfg, fname)) @@ ("file" :> fname)
                         @@ ("settings" :> Get(cfg, "values", EmptyMap))))
       @@ res

\* _extract_builtin_qualities, the scan yielding the files in `order`
RECURSIVE builtin_qualities(_, _, _, _)
builtin_qualities(res, dir, order, i) ==
    IF i > Len(order) THEN res
    ELSE builtin_qualities(ReadBuiltinFile(res, dir, order[i]), dir, order, i + 1)

\* _extract_preferences (lines 553-556)
extract_preferences(files) == parse_cfg_file(files, "cura.cfg")

\* The definition_changes file _extract_gcode accepts for a machine: its name
\* matches *_settings.inst.cfg and contains the machine's name.  Of the file
\* names the model uses, this is the one that does.
GcodeFileOf(machine_name) == machine_name \o "_settings.inst.cfg"

GcodeCandidates(dir, machine_name) == {f \in DOMAIN dir : f = GcodeFileOf(machine_name)}

\* Lines 648-652: the result _extract_gcode starts from
GcodeInitial == [start_gcode |-> "", end_gcode |-> "", source |-> "unknown"]

\* Lines 656-666: the first accepted file (None when the scan yields none)
gcode_from_changes(dir, fname) ==
    IF fname = None THEN GcodeInitial
    ELSE LET values == Get(parse_cfg_file(dir, fname), "values", EmptyMap)
             started == IF "machine_start_gcode" \in DOMAIN values
                        THEN [GcodeInitial EXCEPT !.start_gcode = values["machine_start_gcode"],
                                                  !.source = fname]
                        ELSE GcodeInitial
         IN IF "machine_end_gcode" \in DOMAIN values
            THEN [started EXCEPT !.end_gcode = values["machine_end_gcode"],
                                 !.source = fname]
            ELSE started

\* Line 671: the definitions the fallback of _extract_gcode looks at, in order
GcodeFallbackDefs == <<"creality_ender3pro", "creality_base", "fdmprinter">>

\* Lines 671-685 from the i-th name on.  Line 676,
\* def_data.get("settings", {}).get(...), raises AttributeError when
\* "settings" is not an object: `raised` tells whether the loop met such a
\* document, `value` is the result otherwise.
RECURSIVE gcode_fallback(_, _, _)
gcode_fallback(dir, res, i) ==
    IF i > Len(GcodeFallbackDefs) THEN [raised |-> FALSE, value |-> res]
    ELSE IF ~def_path_exists(dir, GcodeFallbackDefs[i]) THEN gcode_fallback(dir, res, i + 1)
    ELSE IF extract_raises(parse_def_json(dir, GcodeFallbackDefs[i]))
         THEN [raised |-> TRUE, value |-> res]
    ELSE LET overrides == Get(parse_def_json(dir, GcodeFallbackDefs[i]), "overrides", EmptyMap)
             started == IF "machine_start_gcode" \in DOMAIN overrides
                        THEN [res EXCEPT
                                !.start_gcode = Get(overrides["machine_start_gcode"],
                                                    "default_value", ""),
                                !.source = DefFileName(GcodeFallbackDefs[i])]
                        ELSE res
             ended == IF "machine_end_gcode" \in DOMAIN overrides
                      THEN [started EXCEPT
                              !.end_gcode = Get(overrides["machine_end_gcode"],
                                                "default_value", "")]
                      ELSE started
         IN IF Truthy(ended.start_gcode) THEN [raised |-> FALSE, value |-> ended]
            ELSE gcode_fallback(dir, ended, i + 1)

\* _extract_gcode (lines 646-687), the scan of definition_changes having
\* accepted `fname`
extract_gcode(changes, fname, defs) ==
    LET first == gcode_from_changes(changes, fname)
    IN IF Truthy(first.start_gcode) THEN [raised |-> FALSE, value |-> first]
       ELSE gcode_fallback(defs, first, 1)

\* The extruder file of a machine: the one whose path contains the machine's
\* name, of the file names the model uses
ExtruderFileOf(machine_name) == machine_name \o "_extruder_0.extruder.cfg"

\* Line 702: metadata.get("machine", "") == machine_name or machine_name in str(f)
ExtruderBelongs(cfg, fname, machine_name) ==
    \/ Get(Get(cfg, "metadata", EmptyMap), "machine", "") = machine_name
    \/ fname = ExtruderFileOf(machine_name)

\* One iteration of the loop of _extract_extruders (lines 697-713); sfile is
\* the definition_changes file the inner scan stops at (None when none
\* declares the name)
ReadExtruderFile(res, dir, fname, machine_name, changes, sfile) ==
    LET cfg == parse_cfg_file(dir, fname)
        position == Get(Get(cfg, "metadata", EmptyMap), "position", "0")
        settings_name == Get(Get(cfg, "containers", EmptyMap), "6", "")
        own == (("extruder_" \o position) :> cfg) @@ res
    IN IF ~ExtruderBelongs(cfg, fname, machine_name) THEN res
       ELSE IF Truthy(settings_name) /\ sfile # None
            THEN (("extruder_" \o position \o "_settings") :> parse_cfg_file(changes, sfile))
                 @@ own
            ELSE own

\* The files the inner scan of _extract_extruders may stop at for one
\* extruder file
ExtruderSettingsFiles(dir, fname, changes) ==
    LET settings_name == Get(Get(parse_cfg_file(dir, fname), "containers", EmptyMap), "6", "")
        matching == IF Truthy(settings_name)
                    THEN MatchingDefChanges(changes, settings_name) ELSE {}
    IN IF matching = {} THEN {None} ELSE matching

\* _extract_extruders, the scan yielding the files in `order` and the inner
\* scans stopping at pick[f]
RECURSIVE extract_extruders(_, _, _, _, _, _, _)
extract_extruders(res, dir, order, i, machine_name, changes, pick) ==
    IF i > Len(order) THEN res
    ELSE extract_extruders(
             ReadExtruderFile(res, dir, order[i], machine_name, changes, pick[order[i]]),
             dir, order, i + 1, machine_name, changes, pick)

\* packages.json, when it could be opened and parsed: its "installed" items
InstalledPackages(files) ==
    IF "packages.json" \in DOMAIN files /\ files["packages.json"].state = "ok"
    THEN Get(files["packages.json"].content, "installed", <<>>)
    ELSE <<>>

\* Lines 782-788: the entry of one installed package
PluginEntry(pkg_id, pkg_info) ==
    LET info == Get(pkg_info, "package_info", EmptyMap)
    IN [name |-> Get(info, "display_name", pkg_id),
        version |-> Get(info, "package_version", "unknown"),
        description |-> Get(info, "description", ""),
        author |-> Get(Get(info, "author", EmptyMap), "display_name", "unknown"),
        website |-> Get(info, "website", "")]

\* _extract_plugins (lines 768-792)
extract_plugins(files) ==
    IF "packages.json" \notin DOMAIN files THEN EmptyMap
    ELSE IF files["packages.json"].state # "ok"
         THEN "_error" :> files["packages.json"].state
         ELSE LET installed == InstalledPackages(files)
              IN [pkg_id \in {installed[i].key : i \in 1..Len(installed)} |->
                    PluginEntry(pkg_id,
                                (CHOOSE e \in {installed[i] : i \in 1..Len(installed)} :
                                    e.key = pkg_id).node)]

\* The start and end G-code texts of the model and the number of "\n" in each
GcodeNewlines ==
    ("" :> 0) @@ ("G28 ;Home\nG92 E0" :> 1) @@ ("G91\nG1 Z10\nM84" :> 2)
    @@ ("M104 S0" :> 0)

\* The separator of the inheritance line (U+2192 between spaces in the source)
Arrow == " -> "

\* sep.join(names)
RECURSIVE Join(_, _)
Join(names, sep) ==
    IF names = <<>> THEN ""
    ELSE IF Len(names) = 1 THEN names[1]
    ELSE names[1] \o sep \o Join(Tail(names), sep)

\* create_summary_section (lines 280-319); the orders of the key lists are
\* not kept
SummaryMachine(data) ==
    IF "machine" \notin DOMAIN data THEN EmptyMap
    ELSE ("machine_name" :> Get(Get(data, "metadata", EmptyMap), "machine", "Unknown"))
         @@ ("inheritance" :>
                Join([i \in 1..Len(Get(data["machine"], "inheritance_chain", <<>>)) |->
                         data["machine"]["inheritance_chain"][i].name], Arrow))
         @@ ("total_settings" :>
                Cardinality(DOMAIN Get(data["machine"], "effective_settings", EmptyMap)))

SummaryGcode(data) ==
    IF "gcode" \notin DOMAIN data THEN EmptyMap
    ELSE ("gcode_source" :> data["gcode"].source)
         @@ ("start_gcode_lines" :> GcodeNewlines[data["gcode"].start_gcode] + 1)
         @@ ("end_gcode_lines" :> GcodeNewlines[data["gcode"].end_gcode] + 1)

SummaryLists(data) ==
    (IF "quality_builtin" \in DOMAIN data
     THEN "builtin_qualities" :> DOMAIN data["quality_builtin"] ELSE EmptyMap)
    @@ (IF "quality_custom" \in DOMAIN data
        THEN "custom_profiles" :> DOMAIN data["quality_custom"] ELSE EmptyMap)
    @@ (IF "plugins" \in DOMAIN data
        THEN "plugins" :> {data["plugins"][pid].name \o " v" \o data["plugins"][pid].version :
                              pid \in DOMAIN data["plugins"] \ {"_error"}}
        ELSE EmptyMap)

create_summary_section(data) ==
    ("_note" :> "This section provides a quick overview. Full details below.")
    @@ SummaryMachine(data) @@ SummaryGcode(data) @@ SummaryLists(data)

\* Lines 327-353
IMPORTANT_SETTINGS ==
    {"layer_height", "layer_height_0", "wall_thickness", "wall_line_count",
     "top_layers", "bottom_layers", "top_bottom_thickness",
     "infill_sparse_density", "infill_pattern",
     "speed_print", "speed_infill", "speed_wall", "speed_wall_0", "speed_wall_x",
     "speed_topbottom", "speed_travel", "speed_layer_0",
     "retraction_enable", "retraction_amount", "retraction_speed",
     "retraction_hop_enabled", "retraction_hop",
     "material_print_temperature", "material_bed_temperature",
     "cool_fan_speed", "cool_fan_speed_min", "cool_fan_speed_max",
     "support_enable", "support_type", "support_structure",
     "adhesion_type", "skirt_line_count", "brim_width",
     "machine_width", "machine_depth", "machine_height",
     "machine_heated_bed", "machine_nozzle_size"}

\* Line 366: info.get("effective_value") or info.get("value") or info.get("default_value")
KeyValue(info) ==
    IF Truthy(Get(info, "effective_value", None)) THEN info["effective_value"]
    ELSE IF Truthy(Get(info, "value", None)) THEN info["value"]
    ELSE Get(info, "default_value", None)

\* Lines 367-370
KeySource(info) ==
    IF "_sources" \in DOMAIN info
    THEN info["_sources"][Len(info["_sources"])]
    ELSE "default"

\* extract_key_settings (lines 322-372)
extract_key_settings(data) ==
    LET machine == Get(data, "machine", EmptyMap)
        eff == Get(machine, "effective_settings", EmptyMap)
        def_changes == Get(Get(machine, "definition_changes", EmptyMap), "values", EmptyMap)
    IN [setting \in IMPORTANT_SETTINGS \cap (DOMAIN def_changes \cup DOMAIN eff) |->
          IF setting \in DOMAIN def_changes
          THEN [value |-> def_changes[setting], source |-> "your_customizations"]
          ELSE [value |-> KeyValue(eff[setting]), source |-> KeySource(eff[setting])]]

----------------------------------------------------------------------------
(* extract_key_settings on its own *)

\* An entry of effective_settings may or may not hold the field name
OptionalField(name, values) == {EmptyMap} \cup {name :> v : v \in values}

\* Entries of effective_settings as the merge of lines 617-641 can leave them:
\* value and default_value come from the definition documents' JSON (strings,
\* false, 0), effective_value from a definition-changes file
KeyEntries ==
    {a @@ b @@ c @@ d :
        a \in OptionalField("effective_value", {"0.12", ""}),
        b \in OptionalField("value", {"0.2", JsonFalse, JsonZero}),
        c \in OptionalField("default_value", {"0.3", "true", JsonZero}),
        d \in OptionalField("_sources", {<<"fdmprinter", "creality_base">>})}

\* effective_settings: an important setting alone, or another important
\* setting next to a setting the quick reference does not list
KeyEffective ==
    {"layer_height" :> e : e \in KeyEntries}
    \cup {("retraction_enable" :> e) @@ ("mesh_rotation_matrix" :> e) : e \in KeyEntries}

\* The machine section's definition_changes: absent, without the setting, with it
KeyDefChanges ==
    {EmptyMap,
     "definition_changes" :> [file |-> "Ender_settings.inst.cfg",
                              values |-> ("machine_depth" :> "220")],
     "definition_changes" :> [file |-> "Ender_settings.inst.cfg",
                              values |-> ("layer_height" :> "0.1") @@ ("machine_depth" :> "220")]}

\* The data extract_key_settings is given: no machine section, or one
KeyData ==
    {EmptyMap}
    \cup {"machine" :> (("effective_settings" :> eff) @@ dc) :
            eff \in KeyEffective, dc \in KeyDefChanges}

InitKeySettings ==
    /\ definitions = EmptyMap
    /\ machine_instances = EmptyMap
    /\ definition_changes_dir = EmptyMap
    /\ Entered
    /\ FirstCall
    /\ WalkerIdle
    /\ MachineOnly
    /\ key_input \in KeyData
    /\ key_output = EmptyMap
    /\ key_pc = "called"

\* Lines 322-372: the whole call
KeySettings ==
    /\ key_pc = "called"
    /\ key_output' = extract_key_settings(key_input)
    /\ key_pc' = "returned"
    /\ UNCHANGED <<key_input, inputs, pc, result, chain, current_def, effective,
                   idx, merged, run, previous, walker, more_files, fields, driver>>

NextKeySettings == KeySettings

SpecKeySettings == InitKeySettings /\ [][NextKeySettings]_vars

----------------------------------------------------------------------------
(* discover and extract_all on one CuraExtractor *)

\* The model follows at most MaxCalls calls of discover and extract_all.
MaxCalls == 3

\* Line 49
ExtractorVersion == "1.1.0"

\* Line 462: list(...)[:20]
MaterialsLimit == 20

\* What re.search(r'(\d+\.\d+\.?\d*)', str(self.install_path)) finds in the
\* install paths of the model (None: no match)
PathVersion ==
    ("/opt/cura" :> None) @@ ("C:/Program Files/UltiMaker Cura 5.4.0" :> "5.4.0")

MaterialNames == {"generic_pla", "generic_abs"}

MaterialFile(name) == name \o ".xml.fdm_material"

\* Line 463: f.stem.replace(".xml", "")
MaterialName(fname) == CHOOSE n \in MaterialNames : MaterialFile(n) = fname

\* creality_base.def.json with the start and end G-code of the printer family
GcodeBaseBody ==
    "overrides" :>
        (("machine_start_gcode" :> ("default_value" :> "G28 ;Home\nG92 E0"))
         @@ ("machine_end_gcode" :> ("default_value" :> "G91\nG1 Z10\nM84"))
         @@ ("machine_heated_bed" :> ("default_value" :> "true")))

FullDefinitions ==
    [ExampleDefinitions EXCEPT
        !["creality_base"] = File("ok", ("inherits" :> "fdmprinter") @@ GcodeBaseBody)]

\* The full chain; the chain whose middle document is missing; the chain
\* whose root cannot be parsed; the chain whose first document has an array
\* under "settings"
ExtractorDefinitionDirs ==
    {FullDefinitions,
     [id \in {"fdmprinter", "creality_ender3pro"} |-> FullDefinitions[id]],
     [FullDefinitions EXCEPT !["fdmprinter"] = File("malformed", EmptyMap)],
     [FullDefinitions EXCEPT
        !["creality_ender3pro"] =
            File("ok", ("inherits" :> "creality_base") @@ ("settings" :> JsonArray))]}

EnderInstance ==
    File("ok", ("general" :> ("name" :> MachineName))
               @@ ("containers" :> (("6" :> SettingsName) @@ ("7" :> "creality_ender3pro"))))

ExtractorMachineDirs ==
    {MachineName :> EnderInstance,
     (MachineName :> EnderInstance)
        @@ ("Other" :> File("ok", ("general" :> ("name" :> "Other"))))}

ExtractorDefChangesDirs ==
    {EmptyMap,
     "Ender_settings.inst.cfg" :>
        File("ok", ("general" :> ("name" :> SettingsName))
                   @@ ("values" :> (("layer_height" :> "0.12")
                                    @@ ("machine_start_gcode" :> "G28 ;Home\nG92 E0")
                                    @@ ("machine_end_gcode" :> "M104 S0")))),
     "Ender_settings.inst.cfg" :>
        File("ok", ("general" :> ("name" :> SettingsName))
                   @@ ("values" :> (("layer_height" :> "0.12")
                                    @@ ("machine_end_gcode" :> "M104 S0"))))}

\* quality_changes: two files of the profile Draft (a global one and a
\* per-extruder one), a file of the profile Fine, a file that cannot be read
DraftGlobal ==
    File("ok", ("general" :> ("name" :> "Draft"))
               @@ ("metadata" :> (("quality_type" :> "draft") @@ ("type" :> "quality_changes")))
               @@ ("values" :> (("layer_height" :> "0.28") @@ ("speed_print" :> "60"))))

DraftExtruder ==
    File("ok", ("general" :> ("name" :> "Draft"))
               @@ ("metadata" :> (("quality_type" :> "draft") @@ ("position" :> "0")))
               @@ ("values" :> (("layer_height" :> "0.24")
                                @@ ("infill_sparse_density" :> "15"))))

FineGlobal ==
    File("ok", ("general" :> ("name" :> "Fine")) @@ ("values" :> ("layer_height" :> "0.1")))

BrokenProfile == File("unreadable", EmptyMap)

\* quality/creality/base: base_global_*.inst.cfg files, two of which may
\* declare the same quality_type
BuiltinFile(name, quality_type, layer_height) ==
    File("ok", ("general" :> ("name" :> name))
               @@ ("metadata" :> (("quality_type" :> quality_type) @@ ("setting_version" :> "22")))
               @@ ("values" :> ("layer_height" :> layer_height)))

DraftQuality == BuiltinFile("Draft Quality", "draft", "0.28")

EnderExtruder ==
    File("ok", ("general" :> ("name" :> "Extruder 1"))
               @@ ("metadata" :> (("machine" :> MachineName) @@ ("position" :> "0")))
               @@ ("containers" :> ("6" :> SettingsName)))

PackagesJson ==
    File("ok", "installed" :>
        <<Entry("OctoPrintPlugin",
                "package_info" :> (("display_name" :> "OctoPrint Connection")
                                   @@ ("package_version" :> "3.7.3")
                                   @@ ("author" :> ("display_name" :> "fieldOfView")))),
          Entry("Bare", EmptyMap)>>)

\* The other directories, taken together: nothing beside the machine; one
\* file of each kind; a full installation with a profile group; an
\* installation with colliding and broken files
Installations ==
    {[quality_changes |-> EmptyMap, quality_base |-> EmptyMap, extruders_dir |-> EmptyMap,
      materials_dir |-> {}, appdata_files |-> EmptyMap, install_path |-> "/opt/cura"],
     [quality_changes |-> ("fine.inst.cfg" :> FineGlobal),
      quality_base |-> ("base_global_draft.inst.cfg" :> DraftQuality),
      extruders_dir |-> ("Ender_extruder_0.extruder.cfg" :> EnderExtruder),
      materials_dir |-> {MaterialFile("generic_pla")},
      appdata_files |-> ("cura.cfg" :> File("ok", "general" :> ("version" :> "7")))
                        @@ ("packages.json" :> PackagesJson),
      install_path |-> "C:/Program Files/UltiMaker Cura 5.4.0"],
     [quality_changes |-> ("ender_draft.inst.cfg" :> DraftGlobal)
                          @@ ("ender_draft_extruder.inst.cfg" :> DraftExtruder)
                          @@ ("fine.inst.cfg" :> FineGlobal),
      quality_base |-> ("base_global_draft.inst.cfg" :> DraftQuality)
                       @@ ("base_global_standard.inst.cfg" :>
                              BuiltinFile("Standard Quality", "standard", "0.2")),
      extruders_dir |-> ("Ender_extruder_0.extruder.cfg" :> EnderExtruder),
      materials_dir |-> {MaterialFile("generic_pla")},
      appdata_files |-> ("cura.cfg" :> File("ok", "general" :> ("version" :> "7")))
                        @@ ("packages.json" :> PackagesJson),
      install_path |-> "C:/Program Files/UltiMaker Cura 5.4.0"],
     [quality_changes |-> ("ender_draft_extruder.inst.cfg" :> DraftExtruder)
                          @@ ("broken.inst.cfg" :> BrokenProfile),
      quality_base |-> ("base_global_draft.inst.cfg" :> DraftQuality)
                       @@ ("base_global_draft_fast.inst.cfg" :>
                              BuiltinFile("Fast Draft", "draft", "0.32")),
      extruders_dir |-> EmptyMap,
      materials_dir |-> {MaterialFile(n) : n \in MaterialNames},
      appdata_files |-> ("cura.cfg" :> File("malformed", EmptyMap))
                        @@ ("packages.json" :> File("malformed", EmptyMap)),
      install_path |-> "/opt/cura"]}

\* An installation with one file of each kind under every definitions
\* directory, and every installation under the full definitions
Scenarios ==
    {[definitions |-> d, machine_instances |-> MachineName :> EnderInstance,
      definition_changes_dir |-> c, rest |-> inst] :
        d \in ExtractorDefinitionDirs, c \in ExtractorDefChangesDirs,
        inst \in {i \in Installations : Cardinality(DOMAIN i.quality_changes) = 1}}
    \cup {[definitions |-> FullDefinitions, machine_instances |-> m,
           definition_changes_dir |-> c, rest |-> inst] :
             m \in ExtractorMachineDirs, c \in ExtractorDefChangesDirs \ {EmptyMap},
             inst \in Installations}

\* The options extract_all is called with: every section (the keys left
\* out default to True), or some sections switched off
OptionChoices ==
    {EmptyMap,
     ("machine_settings" :> FALSE),
     ("gcode" :> FALSE) @@ ("quality_custom" :> FALSE) @@ ("preferences" :> FALSE),
     ("quality_builtin" :> FALSE) @@ ("plugins" :> FALSE) @@ ("machine_settings" :> TRUE)}

\* options.get(name, True)
Requested(name) == Get(options, name, TRUE)

\* A message handed to self.log: its text and what is interpolated into it.
\* The arrow that opens the progress texts (U+2192 in the source) is
\* written ->.
Msg(text, arg) == [text |-> text, arg |-> arg]

InitExtractor ==
    /\ \E sc \in Scenarios :
          /\ definitions = sc.definitions
          /\ machine_instances = sc.machine_instances
          /\ definition_changes_dir = sc.definition_changes_dir
          /\ quality_changes = sc.rest.quality_changes
          /\ quality_base = sc.rest.quality_base
          /\ extruders_dir = sc.rest.extruders_dir
          /\ materials_dir = sc.rest.materials_dir
          /\ appdata_files = sc.rest.appdata_files
          /\ install_path = sc.rest.install_path
    /\ pc = "idle"
    /\ result = InitialResult
    /\ chain = <<>>
    /\ current_def = None
    /\ effective = EmptyMap
    /\ idx = 0
    /\ merged = <<>>
    /\ FirstCall
    /\ WalkerIdle
    /\ QuickIdle
    /\ Constructed
    /\ NoCalls

\* What neither discover nor a section of extract_all changes
machine_locals == <<pc, result, chain, current_def, effective, idx, merged>>

untouched == <<inputs, more_files, walker, quick, run, previous>>

\* Lines 442-448: the names in scan order, each once
RECURSIVE Dedupe(_)
Dedupe(names) ==
    IF names = <<>> THEN <<>>
    ELSE LET front == Dedupe(SubSeq(names, 1, Len(names) - 1))
             last == names[Len(names)]
         IN IF \E i \in 1..Len(front) : front[i] = last THEN front ELSE Append(front, last)

Take(seq, n) == SubSeq(seq, 1, IF Len(seq) < n THEN Len(seq) ELSE n)

NamesIn(dir, order) ==
    [i \in 1..Len(order) |-> ProfileName(parse_cfg_file(dir, order[i]), order[i])]

\* Lines 466-475: the display names of the installed packages
PluginNames(files) ==
    LET installed == InstalledPackages(files)
    IN [i \in 1..Len(installed) |->
          Get(Get(installed[i].node, "package_info", EmptyMap), "display_name",
              installed[i].key)]

\* discover (lines 415-477).  Each scan yields its files in an order the
\* file system chooses, and list(seen) lists the set in an order of its own.
Discover ==
    /\ xpc = "idle"
    /\ calls < MaxCalls
    /\ calls' = calls + 1
    /\ cura_version' = IF PathVersion[install_path] # None
                       THEN PathVersion[install_path] ELSE cura_version
    /\ \E mo \in Orders(DOMAIN machine_instances), qo \in Orders(DOMAIN quality_changes),
          bo \in Orders(DOMAIN quality_base), fo \in Orders(materials_dir) :
          /\ discovered' =
                [machines |-> mo,
                 custom_profiles |-> Dedupe(NamesIn(quality_changes, qo)),
                 builtin_qualities |-> NamesIn(quality_base, bo),
                 materials |-> Take([i \in 1..Len(fo) |-> MaterialName(fo[i])], MaterialsLimit),
                 plugins |-> PluginNames(appdata_files)]
          /\ machines' = machines \o mo
          /\ IF quality_changes = EmptyMap
             THEN custom_profiles' = custom_profiles
             ELSE custom_profiles' \in
                    Orders({NamesIn(quality_changes, qo)[i] : i \in 1..Len(qo)})
    /\ materials' = materials
    /\ first_discover' = IF first_discover = <<>>
                         THEN <<fields'>> ELSE first_discover
    /\ UNCHANGED <<options, output, xpc, log, returned, custom_order>>
    /\ UNCHANGED <<machine_locals, untouched>>

\* Lines 492-501: extract_all is entered.  datetime.now() is the number of
\* the call.
StartExtraction ==
    /\ xpc = "idle"
    /\ calls < MaxCalls
    /\ calls' = calls + 1
    /\ options' \in OptionChoices
    /\ output' = "metadata" :> [cura_version |-> cura_version, extracted_at |-> calls',
                                machine |-> MachineName,
                                extractor_version |-> ExtractorVersion]
    /\ log' = <<Msg("Starting extraction for machine: ", MachineName)>>
    /\ returned' = EmptyMap
    /\ custom_order' = <<>>
    /\ xpc' = "preferences"
    /\ UNCHANGED <<discovered, first_discover, fields, machine_locals, untouched>>

\* Lines 503-506
Preferences ==
    /\ xpc = "preferences"
    /\ xpc' = "machine"
    /\ IF Requested("preferences")
       THEN /\ log' = Append(log, Msg("  -> Extracting preferences...", ""))
            /\ output' = ("preferences" :> extract_preferences(appdata_files)) @@ output
       ELSE UNCHANGED <<log, output>>
    /\ UNCHANGED <<options, calls, discovered, returned, custom_order, first_discover,
                   fields, machine_locals, untouched>>

\* Lines 508-511 when the section is requested: _extract_machine is entered
CallExtractMachine ==
    /\ xpc = "machine"
    /\ Requested("machine_settings")
    /\ log' = Append(log, Msg("  -> Extracting machine settings...", ""))
    /\ xpc' = "in_machine"
    /\ pc' = "start"
    /\ result' = InitialResult
    /\ chain' = <<>>
    /\ current_def' = None
    /\ effective' = EmptyMap
    /\ idx' = 0
    /\ merged' = <<>>
    /\ UNCHANGED <<options, output, calls, discovered, returned, custom_order,
                   first_discover, fields, untouched>>

\* Line 509 when the section is not requested
SkipMachine ==
    /\ xpc = "machine"
    /\ ~Requested("machine_settings")
    /\ xpc' = "gcode"
    /\ UNCHANGED <<options, output, log, calls, discovered, returned, custom_order,
                   first_discover, fields, machine_locals, untouched>>

\* Line 511: _extract_machine returned
MachineReturns ==
    /\ xpc = "in_machine"
    /\ pc = "done"
    /\ output' = ("machine" :> result) @@ output
    /\ xpc' = "gcode"
    /\ UNCHANGED <<options, log, calls, discovered, returned, custom_order,
                   first_discover, fields, machine_locals, untouched>>

\* Line 511: _extract_machine raised; extract_all catches nothing, so the
\* exception leaves it
MachineRaises ==
    /\ xpc = "in_machine"
    /\ pc = "raised"
    /\ xpc' = "raised"
    /\ UNCHANGED <<options, output, log, calls, discovered, returned, custom_order,
                   first_discover, fields, machine_locals, untouched>>

\* Lines 513-516; the scan of definition_changes stops at the first file it
\* accepts
Gcode ==
    /\ xpc = "gcode"
    /\ IF Requested("gcode")
       THEN /\ log' = Append(log, Msg("  -> Extracting G-code...", ""))
            /\ \E fname \in (IF GcodeCandidates(definition_changes_dir, MachineName) = {}
                             THEN {None}
                             ELSE GcodeCandidates(definition_changes_dir, MachineName)) :
                  LET g == extract_gcode(definition_changes_dir, fname, definitions)
                  IN IF g.raised
                     THEN xpc' = "raised" /\ output' = output
                     ELSE xpc' = "extruders" /\ output' = ("gcode" :> g.value) @@ output
       ELSE xpc' = "extruders" /\ UNCHANGED <<log, output>>
    /\ UNCHANGED <<options, calls, discovered, returned, custom_order, first_discover,
                   fields, machine_locals, untouched>>

\* Lines 518-521
Extruders ==
    /\ xpc = "extruders"
    /\ xpc' = "quality_builtin"
    /\ IF Requested("machine_settings")
       THEN /\ log' = Append(log, Msg("  -> Extracting extruder settings...", ""))
            /\ \E order \in Orders(DOMAIN extruders_dir) :
               \E pick \in [DOMAIN extruders_dir -> DOMAIN definition_changes_dir \cup {None}] :
                  /\ \A f \in DOMAIN extruders_dir :
                        pick[f] \in ExtruderSettingsFiles(extruders_dir, f,
                                                          definition_changes_dir)
                  /\ output' = ("extruders" :>
                                   extract_extruders(EmptyMap, extruders_dir, order, 1,
                                                     MachineName, definition_changes_dir,
                                                     pick))
                               @@ output
       ELSE UNCHANGED <<log, output>>
    /\ UNCHANGED <<options, calls, discovered, returned, custom_order, first_discover,
                   fields, machine_locals, untouched>>

\* Lines 523-526
BuiltinQualities ==
    /\ xpc = "quality_builtin"
    /\ xpc' = "quality_custom"
    /\ IF Requested("quality_builtin")
       THEN /\ log' = Append(log, Msg("  -> Extracting built-in quality profiles...", ""))
            /\ \E order \in Orders(DOMAIN quality_base) :
                  output' = ("quality_builtin" :>
                                builtin_qualities(EmptyMap, quality_base, order, 1))
                            @@ output
       ELSE UNCHANGED <<log, output>>
    /\ UNCHANGED <<options, calls, discovered, returned, custom_order, first_discover,
                   fields, machine_locals, untouched>>

\* Lines 528-531
CustomQualities ==
    /\ xpc = "quality_custom"
    /\ xpc' = "plugins"
    /\ IF Requested("quality_custom")
       THEN /\ log' = Append(log, Msg("  -> Extracting custom quality profiles...", ""))
            /\ \E order \in Orders(DOMAIN quality_changes) :
                  /\ custom_order' = order
                  /\ output' = ("quality_custom" :>
                                   custom_qualities(EmptyMap, quality_changes, order, 1))
                               @@ output
       ELSE UNCHANGED <<log, output, custom_order>>
    /\ UNCHANGED <<options, calls, discovered, returned, first_discover,
                   fields, machine_locals, untouched>>

\* Lines 533-536
Plugins ==
    /\ xpc = "plugins"
    /\ xpc' = "summary"
    /\ IF Requested("plugins")
       THEN /\ log' = Append(log, Msg("  -> Extracting plugins...", ""))
            /\ output' = ("plugins" :> extract_plugins(appdata_files)) @@ output
       ELSE UNCHANGED <<log, output>>
    /\ UNCHANGED <<options, calls, discovered, returned, custom_order, first_discover,
                   fields, machine_locals, untouched>>

\* Lines 538-551: the summary sections are put in front and extract_all
\* returns
Summarise ==
    /\ xpc = "summary"
    /\ xpc' = "idle"
    /\ log' = log \o <<Msg("  -> Generating summary...", ""), Msg("Extraction complete!", "")>>
    /\ returned' = Update(("_summary" :> create_summary_section(output))
                          @@ ("_key_settings" :> extract_key_settings(output)),
                          output)
    /\ UNCHANGED <<options, output, calls, discovered, custom_order, first_discover,
                   fields, machine_locals, untouched>>

NextExtractor ==
    \/ Discover
    \/ StartExtraction
    \/ Preferences
    \/ CallExtractMachine
    \/ SkipMachine
    \/ Next
    \/ MachineReturns
    \/ MachineRaises
    \/ Gcode
    \/ Extruders
    \/ BuiltinQualities
    \/ CustomQualities
    \/ Plugins
    \/ Summarise

SpecExtractor == InitExtractor /\ [][NextExtractor]_vars

----------------------------------------------------------------------------
(* Vocabulary of the properties *)

\* The chain loop has ended for a machine whose instance file was found
ChainBuilt == pc \in {"merge", "raised", "done"} /\ "container_stack" \in DOMAIN result

\* _extract_machine returned its result for a machine whose file was found
Returned == pc = "done" /\ "_error" \notin DOMAIN result

ChainNames == [i \in 1..Len(chain) |-> chain[i].name]

Reverse(seq) == [i \in 1..Len(seq) |-> seq[Len(seq) + 1 - i]]

\* What the tree walker yields for the i-th link's document
LayerSettings(i) == extract_settings_from_def(parse_def_json(definitions, chain[i].name))

\* The values block of the definition changes the resolution picked up
OverrideValues == Get(result["definition_changes"], "values", EmptyMap)

\* Links whose document defines the key, and those that give it the field
LayersDefining(key) == {i \in 1..Len(chain) : key \in DOMAIN LayerSettings(i)}
LayersGiving(key, field) ==
    {i \in LayersDefining(key) : field \in DOMAIN LayerSettings(i)[key]}

\* The chain starts at the base definition, so the smallest index is the
\* most specific layer
MostSpecific(layers) == CHOOSE i \in layers : \A j \in layers : i <= j

\* The fields the overlay and the merger write themselves
OwnFields == {"_sources", "effective_value"}

\* The parent a document on disk declares (None when it cannot be read)
DeclaredParent(id) ==
    IF id \in DOMAIN definitions /\ definitions[id].state = "ok"
    THEN Get(definitions[id].content, "inherits", None)
    ELSE None

\* The chain read off the directory: follow the declared parents from id
\* through at most n documents that exist
RECURSIVE ChainFrom(_, _)
ChainFrom(id, n) ==
    IF n = 0 \/ id = None \/ id \notin DOMAIN definitions THEN <<>>
    ELSE <<[name |-> id, file |-> DefFileName(id), inherits |-> DeclaredParent(id)]>>
         \o ChainFrom(DeclaredParent(id), n - 1)

\* The link where the merge loop raised holds a document whose "settings"
\* is not an object
RaisedOnBadShape ==
    /\ idx \in 1..Len(chain)
    /\ chain[idx].name \in DOMAIN definitions
    /\ definitions[chain[idx].name].state = "ok"
    /\ "settings" \in DOMAIN definitions[chain[idx].name].content
    /\ definitions[chain[idx].name].content["settings"].kind = "array"

Slot6Absent == "container_stack" \in DOMAIN result /\ "6" \notin DOMAIN result["container_stack"]
Slot7Absent == "container_stack" \in DOMAIN result /\ "7" \notin DOMAIN result["container_stack"]

----------------------------------------------------------------------------
(* Properties *)

\* C1: when the inherits references form a cycle, chain building stops and
\* the resolution ends with a cyclic-inheritance error: as soon as the loop
\* is about to visit an identifier that is already in the chain, its next
\* step ends the resolution with an error marker.
C1_CycleEndsWithError ==
    [][(pc = "chain" /\ \E i \in 1..Len(chain) : chain[i].name = current_def)
         => (pc' = "done" /\ "_error" \in DOMAIN result')]_vars

\* C2: in a returned result the merger has processed the links of the chain
\* once each, most general first, and every key's _sources has one entry per
\* link whose document defines the key, plus one if the definition changes
\* define it; no key has an empty _sources.
C2_ProvenanceCount ==
    Returned =>
        /\ merged = Reverse(ChainNames)
        /\ \A key \in DOMAIN result["effective_settings"] :
              LET sources == result["effective_settings"][key]["_sources"]
              IN /\ Len(sources) = Cardinality(LayersDefining(key))
                                   + (IF key \in DOMAIN OverrideValues THEN 1 ELSE 0)
                 /\ Len(sources) >= 1

\* C2 witness: a chain of three documents where one key was defined by every
\* layer and by the definition changes, and another key by one layer only.
C2_Witness ==
    /\ Returned
    /\ Len(chain) = 3
    /\ \E k1, k2 \in DOMAIN result["effective_settings"] :
          /\ Len(result["effective_settings"][k1]["_sources"]) = 4
          /\ Len(result["effective_settings"][k2]["_sources"]) = 1

\* C3: in a returned result, wherever "definition_changes" occurs in a key's
\* _sources it is the last entry.
C3_MarkerOnlyLast ==
    Returned =>
        \A key \in DOMAIN result["effective_settings"] :
            LET sources == result["effective_settings"][key]["_sources"]
            IN \A i \in 1..Len(sources) :
                  sources[i] = DefinitionChangesMarker => i = Len(sources)

\* C4: for a key the definition changes set to V: effective_value is V, the
\* _sources end with the marker, default_value is the D of the most specific
\* layer giving one, and every other field is exactly what the chain gave.
C4_OverridePrecedence ==
    Returned =>
        \A key \in DOMAIN OverrideValues :
            /\ key \in DOMAIN result["effective_settings"]
            /\ LET entry == result["effective_settings"][key]
                   sources == entry["_sources"]
               IN /\ "effective_value" \in DOMAIN entry
                  /\ entry["effective_value"] = OverrideValues[key]
                  /\ Len(sources) >= 1
                  /\ sources[Len(sources)] = DefinitionChangesMarker
                  /\ LayersGiving(key, "default_value") # {} =>
                        /\ "default_value" \in DOMAIN entry
                        /\ entry["default_value"] =
                              LayerSettings(MostSpecific(LayersGiving(key, "default_value")))
                                  [key]["default_value"]
                  /\ LayersGiving(key, "default_value") = {} =>
                        "default_value" \notin DOMAIN entry
                  /\ DOMAIN entry \ OwnFields =
                        UNION {DOMAIN LayerSettings(i)[key] : i \in LayersDefining(key)}

\* C4 witness: a key with a chain default D and a different override V.
C4_Witness ==
    /\ Returned
    /\ \E key \in DOMAIN OverrideValues :
          /\ LayersGiving(key, "default_value") # {}
          /\ result["effective_settings"][key]["default_value"] # OverrideValues[key]
          /\ result["effective_settings"][key]["effective_value"] = OverrideValues[key]

\* C5: every field of every effective setting that a chain layer gives has
\* the value of the most specific layer giving it, also when a more specific
\* layer defines the key without that field; fields no layer gives are absent.
C5_MostSpecificLayerWins ==
    Returned =>
        \A key \in DOMAIN result["effective_settings"] :
            LET entry == result["effective_settings"][key]
            IN /\ \A field \in DOMAIN entry \ OwnFields :
                     /\ LayersGiving(key, field) # {}
                     /\ entry[field] =
                           LayerSettings(MostSpecific(LayersGiving(key, field)))[key][field]
               /\ \A i \in LayersDefining(key) :
                     DOMAIN LayerSettings(i)[key] \subseteq DOMAIN entry

\* C5 witness: a key whose most specific defining layer lacks a field that a
\* more general layer gives, and the field is still there.
C5_Witness ==
    /\ Returned
    /\ \E key \in DOMAIN result["effective_settings"] :
          \E field \in DOMAIN result["effective_settings"][key] \ OwnFields :
              /\ LayersGiving(key, field) # {}
              /\ MostSpecific(LayersDefining(key)) < MostSpecific(LayersGiving(key, field))

\* C6: the keys of effective_settings are exactly the keys the tree walker
\* yields for some link of the chain together with the keys of the
\* definition-changes values block.
C6_KeySetIsUnion ==
    Returned =>
        DOMAIN result["effective_settings"] =
            UNION {DOMAIN LayerSettings(i) : i \in 1..Len(chain)} \cup DOMAIN OverrideValues

\* C6 witness: a result holding a key only the definition changes define
\* beside keys from at least two layers.
C6_Witness ==
    /\ Returned
    /\ Len(chain) >= 2
    /\ \E key \in DOMAIN OverrideValues : LayersDefining(key) = {}
    /\ \E key \in DOMAIN result["effective_settings"] : key \notin DOMAIN OverrideValues

\* C7: once the chain loop has ended, a link declaring a parent that has no
\* file is the last link, the result carries no error marker, the chain is
\* exactly the documents found from the base definition, an exception can
\* only come from a document whose "settings" is not an object, and a
\* returned result holds every key those documents define.
C7_MissingParentEndsChain ==
    ChainBuilt =>
        \A i \in 1..Len(chain) :
            (Truthy(chain[i].inherits) /\ chain[i].inherits \notin DOMAIN definitions) =>
                /\ i = Len(chain)
                /\ "_error" \notin DOMAIN result
                /\ result["inheritance_chain"] =
                      ChainFrom(Get(result["container_stack"], "7", FallbackBaseDef), MaxChain)
                /\ \A j \in 1..Len(chain) : chain[j].name \in DOMAIN definitions
                /\ pc = "raised" => RaisedOnBadShape
                /\ pc = "done" =>
                      \A j \in 1..Len(chain) :
                          DOMAIN LayerSettings(j) \subseteq DOMAIN result["effective_settings"]

\* C7 witness: a returned result whose chain of two documents ends at a
\* document declaring a parent without a file.
C7_Witness ==
    /\ Returned
    /\ Len(chain) = 2
    /\ Truthy(chain[2].inherits)
    /\ chain[2].inherits \notin DOMAIN definitions
    /\ DOMAIN result["effective_settings"] # {}

\* C8: the map a reader returned carries _error whenever the file it read
\* was unreadable or malformed (the instance file through parse_cfg_file,
\* the documents of the chain through parse_def_json).
C8_ReadersMarkErrors ==
    /\ "instance" \in DOMAIN result =>
          (machine_instances[MachineName].state # "ok"
              => "_error" \in DOMAIN result["instance"])
    /\ ChainBuilt =>
          \A i \in 1..Len(chain) :
              (chain[i].name \in DOMAIN definitions
                 /\ definitions[chain[i].name].state # "ok")
                  => "_error" \in DOMAIN parse_def_json(definitions, chain[i].name)

\* C9: _extract_machine never raises, whatever the documents of the chain
\* hold, and a returned result holds the keys of every link's document.
C9_NeverRaises ==
    /\ pc # "raised"
    /\ Returned =>
          \A i \in 1..Len(chain) :
              DOMAIN LayerSettings(i) \subseteq DOMAIN result["effective_settings"]

DeclaredName(dir, f) ==
    IF dir[f].state = "ok" /\ "general" \in DOMAIN dir[f].content
       /\ "name" \in DOMAIN dir[f].content["general"]
    THEN dir[f].content["general"]["name"]
    ELSE None

\* Slot 6 names a document that no file of definition_changes declares
Slot6Dangling ==
    /\ "container_stack" \in DOMAIN result
    /\ "6" \in DOMAIN result["container_stack"]
    /\ Truthy(result["container_stack"]["6"])
    /\ \A f \in DOMAIN definition_changes_dir :
          DeclaredName(definition_changes_dir, f) # result["container_stack"]["6"]

\* C17: when slot 6 names a definition-changes document that no file
\* declares (or the directory holds no file), from the scan on the
\* definition_changes block is empty and the result has no error marker; an
\* exception can only come from a chain document whose "settings" is not an
\* object; and in the returned result no key has an effective_value and every
\* _sources holds the defining layers only.
C17_DanglingSlot6ContributesNothing ==
    (Slot6Dangling /\ pc \in {"chain", "merge", "raised", "done"}) =>
        /\ result["definition_changes"] = EmptyMap
        /\ "_error" \notin DOMAIN result
        /\ pc = "raised" => RaisedOnBadShape
        /\ Returned =>
              \A key \in DOMAIN result["effective_settings"] :
                  /\ "effective_value" \notin DOMAIN result["effective_settings"][key]
                  /\ Len(result["effective_settings"][key]["_sources"])
                        = Cardinality(LayersDefining(key))

\* C17 witness: a returned result with settings, for a slot 6 naming a
\* document while the only file in definition_changes declares another name.
C17_Witness ==
    /\ Returned
    /\ Slot6Dangling
    /\ \E f \in DOMAIN definition_changes_dir :
          DeclaredName(definition_changes_dir, f) = "Other_settings"
    /\ DOMAIN result["effective_settings"] # {}


\* C11: a second resolution of the same machine over the same files returns
\* the effective_settings the first one returned.
C11_RerunIdentical ==
    (Returned /\ run >= 2) =>
        result["effective_settings"] = previous["effective_settings"]

\* The resolution of the worked example: the chain is creality_ender3pro,
\* creality_base, fdmprinter and the definition changes set layer_height to
\* 0.12
WorkedExample ==
    /\ Returned
    /\ definitions = ExampleDefinitions
    /\ ChainNames = <<"creality_ender3pro", "creality_base", "fdmprinter">>
    /\ "layer_height" \in DOMAIN OverrideValues
    /\ OverrideValues["layer_height"] = "0.12"

\* C12 (as claimed): in the worked example layer_height has default_value
\* 0.16, effective_value 0.12 and _sources fdmprinter, creality_base,
\* creality_ender3pro, definition_changes.
C12_ExampleAsClaimed ==
    WorkedExample =>
        LET entry == result["effective_settings"]["layer_height"]
        IN /\ entry["default_value"] = "0.16"
           /\ entry["effective_value"] = "0.12"
           /\ entry["_sources"] = <<"fdmprinter", "creality_base", "creality_ender3pro",
                                    DefinitionChangesMarker>>

\* C12 (amended): in the worked example layer_height has default_value 0.16,
\* effective_value 0.12 and _sources fdmprinter, creality_ender3pro,
\* definition_changes: creality_base, which does not define the key, is not
\* in its provenance.
C12_ExampleProvenance ==
    WorkedExample =>
        /\ "layer_height" \in DOMAIN result["effective_settings"]
        /\ LET entry == result["effective_settings"]["layer_height"]
           IN /\ entry["default_value"] = "0.16"
              /\ entry["effective_value"] = "0.12"
              /\ entry["_sources"] = <<"fdmprinter", "creality_ender3pro",
                                       DefinitionChangesMarker>>

\* C12 witness: the worked example has been resolved.
C12_Witness ==
    /\ WorkedExample
    /\ Len(result["effective_settings"]["layer_height"]["_sources"]) = 3
    /\ "machine_heated_bed" \in DOMAIN result["effective_settings"]


\* Every [key, node] pair of a settings object, at any depth
RECURSIVE NodesOf(_)
NodesOf(items) ==
    UNION {{items[i]} \cup NodesOf(items[i].node.children) : i \in 1..Len(items)}

\* A node that carries a type other than "category"
IsSetting(node) == "type" \in DOMAIN node.props /\ node.props["type"] # "category"

\* A category: type "category", or children without a type
IsCategory(node) ==
    \/ "type" \in DOMAIN node.props /\ node.props["type"] = "category"
    \/ "type" \notin DOMAIN node.props /\ node.children # <<>>

WalkerNodes == NodesOf(walker_input["settings"].items)

WalkerOverrideKeys ==
    IF "overrides" \in DOMAIN walker_input THEN DOMAIN walker_input["overrides"] ELSE {}

\* C20: extract_settings_from_def puts every node of the settings tree that
\* carries a type other than "category", at any depth, into the output under
\* the node's own key; a category never makes an output entry (a key of the
\* output that no override names is the key of a typed non-category node and
\* holds that node's allow-listed fields), and the settings below a category
\* are in the output.
C20_WalkerSkipsCategoriesOnly ==
    walker_pc = "returned" =>
        /\ \A e \in WalkerNodes : IsSetting(e.node) => e.key \in DOMAIN walker_output
        /\ \A k \in DOMAIN walker_output \ WalkerOverrideKeys :
              \E e \in WalkerNodes :
                 /\ e.key = k
                 /\ IsSetting(e.node)
                 /\ walker_output[k] = Restrict(e.node.props, AllowList)
        /\ \A e \in WalkerNodes :
              (IsCategory(e.node)
                 /\ \A o \in WalkerNodes : o.key = e.key => ~IsSetting(o.node))
              => e.key \notin DOMAIN walker_output \ WalkerOverrideKeys

\* C20 witness: a typed category holding an untyped category holding a
\* setting; only the setting is in the output.
C20_Witness ==
    /\ walker_pc = "returned"
    /\ "overrides" \notin DOMAIN walker_input
    /\ \E e1, e2, e3 \in WalkerNodes :
          /\ e1.key = "resolution" /\ e2.key = "speed" /\ e3.key = "layer_height"
          /\ "type" \in DOMAIN e1.node.props
          /\ IsCategory(e1.node) /\ e1.node.children = <<e2>>
          /\ "type" \notin DOMAIN e2.node.props
          /\ IsCategory(e2.node) /\ e2.node.children = <<e3>>
          /\ IsSetting(e3.node)
    /\ DOMAIN walker_output = {"layer_height"}


\* extract_all has ended: it returned or an exception left it
ExtractionEnded == xpc = "raised" \/ (xpc = "idle" /\ returned # EmptyMap)

\* The sections the options ask for, by the key each has in the document
RequestedSections ==
    (IF Requested("preferences") THEN {"preferences"} ELSE {})
    \cup (IF Requested("machine_settings") THEN {"machine", "extruders"} ELSE {})
    \cup (IF Requested("gcode") THEN {"gcode"} ELSE {})
    \cup (IF Requested("quality_builtin") THEN {"quality_builtin"} ELSE {})
    \cup (IF Requested("quality_custom") THEN {"quality_custom"} ELSE {})
    \cup (IF Requested("plugins") THEN {"plugins"} ELSE {})

\* C13: when extract_all has ended, it has returned a document, and every
\* requested section is in it: a section that fails never aborts the call.
C13_SectionsDegradeIndependently ==
    ExtractionEnded =>
        /\ xpc # "raised"
        /\ RequestedSections \subseteq DOMAIN returned

\* The parsed quality_changes file f and the profile name it declares
CustomCfg(f) == parse_cfg_file(quality_changes, f)

CustomName(f) == ProfileName(CustomCfg(f), f)

\* The files of quality_changes that declare the profile `name`
Group(name) == {f \in DOMAIN quality_changes : CustomName(f) = name}

CustomValues(f) == Get(CustomCfg(f), "values", EmptyMap)

\* The place of file f in the order _extract_custom_qualities read the files
ReadAt(f) == CHOOSE i \in 1..Len(custom_order) : custom_order[i] = f

\* _extract_custom_qualities has run in the current call of extract_all
CustomExtracted == "quality_custom" \in DOMAIN output /\ Len(custom_order) > 0

\* C14: the files of quality_changes that declare the same profile name make
\* one entry; its settings have the union of the files' keys, and a key that
\* several files define holds the value of the file read last.
C14_GroupedProfileMerge ==
    CustomExtracted =>
        LET custom == output["quality_custom"]
        IN /\ DOMAIN custom = {CustomName(f) : f \in DOMAIN quality_changes}
           /\ \A name \in DOMAIN custom :
                 /\ DOMAIN custom[name]["settings"] =
                        UNION {DOMAIN CustomValues(f) : f \in Group(name)}
                 /\ \A key \in DOMAIN custom[name]["settings"] :
                       \E f \in Group(name) :
                          /\ key \in DOMAIN CustomValues(f)
                          /\ custom[name]["settings"][key] = CustomValues(f)[key]
                          /\ \A g \in Group(name) :
                                key \in DOMAIN CustomValues(g) => ReadAt(g) <= ReadAt(f)

\* C14 witness: the two files of the profile Draft were read, the global one
\* last; the entry has the keys of both and the global file's layer_height.
C14_Witness ==
    /\ CustomExtracted
    /\ Group("Draft") = {"ender_draft.inst.cfg", "ender_draft_extruder.inst.cfg"}
    /\ ReadAt("ender_draft_extruder.inst.cfg") < ReadAt("ender_draft.inst.cfg")
    /\ DOMAIN output["quality_custom"]["Draft"]["settings"] =
          {"layer_height", "speed_print", "infill_sparse_density"}
    /\ output["quality_custom"]["Draft"]["settings"]["layer_height"] = "0.28"

\* The file and machine names of the model in alphabetical order
Alphabet ==
    <<"Ender", "Other", "broken.inst.cfg", "ender_draft.inst.cfg",
      "ender_draft_extruder.inst.cfg", "fine.inst.cfg">>

\* sorted(S)
Alphabetical(S) ==
    LET IsIn(x) == x \in S
    IN SelectSeq(Alphabet, IsIn)

\* C15: the custom profile files are processed in alphabetical order of
\* their names, whatever order the scan yields them in: each profile's
\* merged settings are those of the alphabetical order, and the machine and
\* profile lists discover returns are in that order.
C15_AlphabeticalProcessing ==
    /\ CustomExtracted =>
          \A name \in DOMAIN output["quality_custom"] :
             output["quality_custom"][name]["settings"] =
                custom_qualities(EmptyMap, quality_changes,
                                 Alphabetical(DOMAIN quality_changes), 1)[name]["settings"]
    /\ discovered # EmptyMap =>
          /\ discovered.machines = Alphabetical(DOMAIN machine_instances)
          /\ discovered.custom_profiles =
                Dedupe(NamesIn(quality_changes, Alphabetical(DOMAIN quality_changes)))

\* C16: the metadata of a profile group is the union of its files' metadata
\* blocks: every metadata key of every file of the group is in the group's
\* metadata.
C16_MetadataUnion ==
    CustomExtracted =>
        \A name \in DOMAIN output["quality_custom"] :
           \A f \in Group(name) :
              \A key \in DOMAIN Get(CustomCfg(f), "metadata", EmptyMap) :
                 /\ "metadata" \in DOMAIN output["quality_custom"][name]
                 /\ key \in DOMAIN output["quality_custom"][name]["metadata"]

\* The texts extract_all sends on every call, whatever the documents hold
\* (lines 501-550)
ProgressTexts ==
    {"Starting extraction for machine: ", "  -> Extracting preferences...",
     "  -> Extracting machine settings...", "  -> Extracting G-code...",
     "  -> Extracting extruder settings...",
     "  -> Extracting built-in quality profiles...",
     "  -> Extracting custom quality profiles...", "  -> Extracting plugins...",
     "  -> Generating summary...", "Extraction complete!"}

\* The chain of a machine section ends at a link whose declared parent has
\* no document
ChainCutShort(machine) ==
    /\ machine["inheritance_chain"] # <<>>
    /\ LET last == machine["inheritance_chain"][Len(machine["inheritance_chain"])]
       IN Truthy(last.inherits) /\ ~def_path_exists(definitions, last.inherits)

\* A link of the chain names a document that cannot be parsed
MetUnparseable(machine) ==
    \E i \in 1..Len(machine["inheritance_chain"]) :
       "_error" \in DOMAIN parse_def_json(definitions, machine["inheritance_chain"][i].name)

\* C18: when a run has returned a machine section whose chain was cut short
\* by a missing parent document, or that met an unparseable document, the
\* user has been sent a message about it: a message other than the progress
\* texts every run sends.
C18_ConditionsReported ==
    (/\ xpc = "idle"
     /\ "machine" \in DOMAIN returned
     /\ ChainCutShort(returned["machine"]) \/ MetUnparseable(returned["machine"]))
    => \E i \in 1..Len(log) : log[i].text \notin ProgressTexts

\* C19: once discover has been called, the recorded fields keep the values
\* the first call left, whatever calls of discover and extract_all follow.
C19_NoStateAccumulates ==
    first_discover # <<>> => fields = first_discover[1]


\* What the walk of the "settings" tree alone yields for the document
WalkerTreeOnly == extract_settings_from_def([k \in DOMAIN walker_input \ {"overrides"} |->
                                                walker_input[k]])

\* C21: an override of extract_settings_from_def merges into the key's entry
\* field by field: the entry of a key listed under "overrides" holds the
\* override's value for each field the override gives and the tree's value
\* for each other field, and its _source is the document's file name; a key
\* not listed under "overrides" has no _source.
C21_OverridesMergeShallowly ==
    walker_pc = "returned" =>
        /\ \A key \in WalkerOverrideKeys :
              LET override == walker_input["overrides"][key]
                  tree == Get(WalkerTreeOnly, key, EmptyMap)
              IN /\ key \in DOMAIN walker_output
                 /\ DOMAIN walker_output[key] =
                       DOMAIN override \cup DOMAIN tree \cup {"_source"}
                 /\ \A f \in DOMAIN override : walker_output[key][f] = override[f]
                 /\ \A f \in DOMAIN tree \ DOMAIN override :
                       walker_output[key][f] = tree[f]
                 /\ walker_output[key]["_source"] = walker_input["_filename"]
        /\ \A key \in DOMAIN walker_output \ WalkerOverrideKeys :
              "_source" \notin DOMAIN walker_output[key]

\* C21 witness: layer_height is a setting of the tree and is overridden; its
\* entry has the override's default_value and the tree's type, and another
\* setting of the tree is not overridden.
C21_Witness ==
    /\ walker_pc = "returned"
    /\ WalkerOverrideKeys = {"layer_height"}
    /\ "layer_height" \in DOMAIN WalkerTreeOnly
    /\ Get(WalkerTreeOnly["layer_height"], "default_value", None) = "0.2"
    /\ walker_output["layer_height"]["default_value"] = "0.16"
    /\ walker_output["layer_height"]["type"] = "float"
    /\ "speed" \in DOMAIN walker_output

\* The allow-list as the documentation gives it
DocumentedFields ==
    {"default_value", "value", "type", "description", "unit", "minimum_value",
     "maximum_value", "enabled", "settable_per_mesh", "settable_per_extruder", "options"}

\* C22: the entry of a setting taken from the tree holds the node's fields
\* that are in the allow-list, each with the node's value, and no other
\* field.
C22_OnlyAllowListedFields ==
    walker_pc = "returned" =>
        \A key \in DOMAIN walker_output \ WalkerOverrideKeys :
           /\ DOMAIN walker_output[key] \subseteq DocumentedFields
           /\ \E e \in WalkerNodes :
                 /\ e.key = key
                 /\ IsSetting(e.node)
                 /\ DOMAIN walker_output[key] = DOMAIN e.node.props \cap DocumentedFields
                 /\ \A f \in DOMAIN walker_output[key] :
                       walker_output[key][f] = e.node.props[f]

\* C22 witness: a setting whose node carries settable_globally beside
\* allow-listed fields is in the output without it.
C22_Witness ==
    /\ walker_pc = "returned"
    /\ \E e \in WalkerNodes :
          /\ "settable_globally" \in DOMAIN e.node.props
          /\ e.key \in DOMAIN walker_output \ WalkerOverrideKeys
          /\ DOMAIN walker_output[e.key] = {"type", "options", "description", "enabled"}


\* C23: inheritance_chain is in traversal order.  Its first link is the base
\* definition, each link's declared parent is the next link, every link has
\* a backing file, and the last link declares no parent or one without a
\* document; the merge loop takes the links in the reverse of that order.
C23_ChainInTraversalOrder ==
    ChainBuilt =>
        LET links == result["inheritance_chain"]
            n == Len(links)
        IN /\ links = chain
           /\ IF n = 0
              THEN ~def_path_exists(definitions, base_def_name(result["container_stack"]))
              ELSE /\ links[1].name = base_def_name(result["container_stack"])
                   /\ ~(Truthy(links[n].inherits)
                        /\ def_path_exists(definitions, links[n].inherits))
           /\ \A i \in 1..n :
                 /\ def_path_exists(definitions, links[i].name)
                 /\ links[i].inherits = DeclaredParent(links[i].name)
                 /\ i < n => links[i].inherits = links[i + 1].name
           /\ Len(merged) <= n
           /\ \A i \in 1..Len(merged) : merged[i] = links[n + 1 - i].name
           /\ pc = "done" => merged = Reverse(ChainNames)

\* C23 witness: a chain of three links has been merged, root first.
C23_Witness ==
    /\ Returned
    /\ Len(result["inheritance_chain"]) = 3
    /\ result["inheritance_chain"][1].name = "creality_ender3pro"
    /\ result["inheritance_chain"][1].inherits = "definition_changes"
    /\ result["inheritance_chain"][3].name = "fdmprinter"
    /\ merged = <<"fdmprinter", "definition_changes", "creality_ender3pro">>

\* The field of an entry the quick reference is to report: the first of
\* effective_value, value and default_value the entry holds
FirstPresentField(info) ==
    IF "effective_value" \in DOMAIN info THEN info["effective_value"]
    ELSE IF "value" \in DOMAIN info THEN info["value"]
    ELSE Get(info, "default_value", None)

\* C24: for every important setting extract_key_settings reports the
\* definition-changes value when the definition-changes values hold the key;
\* otherwise the entry's effective_value if that field is present, else its
\* value if present, else its default_value, also when the chosen field
\* holds 0, false or the empty string.
C24_PresentFieldIsReported ==
    key_pc = "returned" =>
        LET machine == Get(key_input, "machine", EmptyMap)
            eff == Get(machine, "effective_settings", EmptyMap)
            def_changes == Get(Get(machine, "definition_changes", EmptyMap), "values", EmptyMap)
        IN \A setting \in IMPORTANT_SETTINGS :
              /\ setting \in DOMAIN def_changes =>
                    /\ setting \in DOMAIN key_output
                    /\ key_output[setting].value = def_changes[setting]
              /\ (setting \notin DOMAIN def_changes /\ setting \in DOMAIN eff) =>
                    /\ setting \in DOMAIN key_output
                    /\ key_output[setting].value = FirstPresentField(eff[setting])

\* The values of the definition-changes file _extract_gcode accepts for the
\* machine (empty when there is no such file)
UserGcodeValues ==
    IF GcodeCandidates(definition_changes_dir, MachineName) = {} THEN EmptyMap
    ELSE Get(parse_cfg_file(definition_changes_dir, GcodeFileOf(MachineName)),
             "values", EmptyMap)

\* C25: when the definition-changes file matched for the machine defines
\* machine_end_gcode (or machine_start_gcode), the gcode section reports
\* that user value for the field, whatever the definition documents hold:
\* no definition document's default replaces it.
C25_UserGcodeKept ==
    "gcode" \in DOMAIN output =>
        /\ "machine_start_gcode" \in DOMAIN UserGcodeValues =>
              output["gcode"].start_gcode = UserGcodeValues["machine_start_gcode"]
        /\ "machine_end_gcode" \in DOMAIN UserGcodeValues =>
              output["gcode"].end_gcode = UserGcodeValues["machine_end_gcode"]

============================================================================
